---- MODULE Spec2Model ----
(***************************************************************************)
(* Tracking lifecycle of the DexScreener status bot (src/main.py).         *)
(*                                                                         *)
(* One chat is modelled: its persistent storage (chat_data / user_data),   *)
(* the job queue entry named tracking_<chat_id>, the command handler that  *)
(* is currently being processed and the check_for_updates job that is      *)
(* currently running.  Updates are processed one at a time (the            *)
(* application is built without concurrent_updates), jobs run as tasks of  *)
(* the same event loop, so a handler and a job interleave at every await.  *)
(*                                                                         *)
(* An action is the code that runs between two suspensions.  Consecutive   *)
(* awaits with no access to the storage or the job queue between them are  *)
(* one suspension, and the result an await delivers (a fetched status, a   *)
(* header) is chosen when the code that uses it runs.                      *)
(***************************************************************************)
EXTENDS Integers, Sequences, FiniteSets, TLC

(***************************************************************************)
(* Program constants                                                       *)
(***************************************************************************)
MAX_TRACKING_SLOTS == 2

IDLE_TIMEOUT == 1800

(***************************************************************************)
(* Bounds and input domains                                                *)
(***************************************************************************)
\* the wall clock, in seconds since the start of the process, does not
\* pass MaxNow
MaxNow == 1900

\* at most MaxOverlap commands (one more under SpecMore) arrive while one
\* run of check_for_updates is suspended
MaxOverlap == 1

\* the clock advances in steps a little longer than the idle timeout
TimeStep == IDLE_TIMEOUT + 100

None == "None"

\* token addresses that match SOLANA_ADDRESS_PATTERN
Addresses == {"A", "B", "C"}

\* command arguments: no argument at all (<< >>), a malformed address, or
\* a well-formed one
TrackArgs == {<< >>, <<"bad!">>} \cup {<<a>> : a \in Addresses}

\* the status strings the orders endpoint has for a token
Statuses(token_address) ==
  CASE token_address = "A" -> {"processing", "pending", "approved"}
    [] token_address = "B" -> {"pending", "updated"}
    [] OTHER -> {"processing", "approved", "APPROVED"}

\* the symbol the token-pairs endpoint has for a token ("" : a record with
\* an empty symbol)
PairSymbol(token_address) == IF token_address = "B" THEN "" ELSE "SYM"

\* the text after "replace_" in the callback data
SlotTexts == {"-1", "0", "1", "2", "99", "x"}

Partitions == {"chat_data", "user_data"}

\* the chat: a group (a private chat differs in the partition alone)
ChatIds == {-1}

ObjIds == {1, 2, 3, 4}

(***************************************************************************)
(* Python values                                                           *)
(***************************************************************************)
\* truth value of a str | None
Falsy(x) == x = None \/ x = ""

\* str.lower()
Lower(s) ==
  CASE s = "APPROVED" -> "approved"
    [] OTHER -> s

\* int(text) raises ValueError unless text is an integer literal
IsIntLiteral(text) == text \in {"-1", "0", "1", "2", "99"}

\* int(text) of an integer literal
ParseInt(text) ==
  CASE text = "-1" -> -1
    [] text = "0" -> 0
    [] text = "1" -> 1
    [] text = "2" -> 2
    [] text = "99" -> 99

\* re.match(SOLANA_ADDRESS_PATTERN, token_address)
MatchesAddressPattern(token_address) == token_address \in Addresses

(***************************************************************************)
(* dict: insertion-ordered, a sequence of entries keyed by addr            *)
(***************************************************************************)
Keys(d) == [i \in 1..Len(d) |-> d[i].addr]

\* a look-up that sees the first key alone (sensitivity variant)
HasFirst(d, k) == Len(d) > 0 /\ d[1].addr = k

Has(d, k) == \E i \in 1..Len(d) : d[i].addr = k

\* d[k] = info : an existing key keeps its position, a new key goes last
DictSet(d, k, info) ==
  LET e == [addr |-> k, symbol |-> info.symbol,
            last_status |-> info.last_status, last_change |-> info.last_change]
  IN IF Has(d, k)
       THEN [i \in 1..Len(d) |-> IF d[i].addr = k THEN e ELSE d[i]]
       ELSE Append(d, e)

\* del d[k]
DictDel(d, k) == SelectSeq(d, LAMBDA e : e.addr # k)

\* lst[i + 1]: an index that counts from 1 (sensitivity variant)
ListIndexOne(lst, i) == IF i + 2 \in 1..Len(lst) THEN lst[i + 2] ELSE None

\* lst[i] of a Python list: 0-based, negative indices count from the end;
\* None for IndexError
ListIndex(lst, i) ==
  IF i >= 0 /\ i < Len(lst) THEN lst[i + 1]
  ELSE IF i < 0 /\ i >= 0 - Len(lst) THEN lst[Len(lst) + i + 1]
  ELSE None

\* lst[:n]
Prefix(lst, n) == SubSeq(lst, 1, IF Len(lst) < n THEN Len(lst) ELSE n)

(***************************************************************************)
(* State                                                                   *)
(***************************************************************************)
VARIABLES
  chat_id,    \* the chat: negative for a group, positive for a private chat
  overlap,    \* how many commands may arrive while one check_for_updates run is suspended
  storage,    \* per partition: the tracked_tokens dict object (0: no key) and pending_token
  heap,       \* the dict objects
  job_queue,  \* the scheduled jobs named tracking_<chat_id>, in creation order
  startup,    \* on_startup: whether it has run, and the partitions whose persisted
              \* record of the chat has a tracked_tokens key
  handler,    \* the command handler being processed
  tick,       \* the running check_for_updates job
  sent,       \* the messages the last step of the running check_for_updates sent
  now,        \* time.time()
  call        \* a call of fetch_token_info or of time_since followed on its own

vars == <<chat_id, overlap, storage, heap, job_queue, startup, handler, tick, sent, now, call>>

NoHandler ==
  [pc |-> "idle", tracked_tokens |-> 0, pending_token |-> None, status |-> None,
   outcome |-> None, keyboard |-> << >>]

NoTick ==
  [pc |-> "idle", is_group |-> FALSE, tracked_tokens |-> 0, items |-> << >>,
   arrived |-> 0]

\* get_storage
get_storage(id) == IF id # 0 /\ id < 0 THEN "chat_data" ELSE "user_data"

\* the references to dict objects, in a fixed order
RefSeq(st, h, t) ==
  <<st["chat_data"].tracked_tokens, st["user_data"].tracked_tokens,
    h.tracked_tokens, t.tracked_tokens>>

Refs(st, h, t) == {RefSeq(st, h, t)[i] : i \in 1..4} \ {0}

\* a new dict object
NewObj(st, h, t) == CHOOSE o \in ObjIds : o \notin Refs(st, h, t)

\* Object identity is not observable: the objects are renumbered in the
\* order of RefSeq, and objects nothing refers to are collected.
Renumbering(r) ==
  LET n1 == IF r[1] = 0 THEN 0 ELSE 1
      n2 == IF r[2] = 0 THEN 0 ELSE IF r[2] = r[1] THEN n1 ELSE n1 + 1
      m2 == IF n2 > n1 THEN n2 ELSE n1
      n3 == IF r[3] = 0 THEN 0
            ELSE IF r[3] = r[1] THEN n1 ELSE IF r[3] = r[2] THEN n2 ELSE m2 + 1
      m3 == IF n3 > m2 THEN n3 ELSE m2
      n4 == IF r[4] = 0 THEN 0
            ELSE IF r[4] = r[1] THEN n1 ELSE IF r[4] = r[2] THEN n2
            ELSE IF r[4] = r[3] THEN n3 ELSE m3 + 1
  IN <<n1, n2, n3, n4>>

Commit(st, hp, h, t) ==
  \E r \in {RefSeq(st, h, t)} :
    \E n \in {Renumbering(r)} :
      /\ storage' = [st EXCEPT !["chat_data"].tracked_tokens = n[1],
                               !["user_data"].tracked_tokens = n[2]]
      /\ handler' = [h EXCEPT !.tracked_tokens = n[3]]
      /\ tick' = [t EXCEPT !.tracked_tokens = n[4]]
      /\ \E old \in {hp} :
           heap' = [o \in ObjIds |->
                      IF o = n[1] THEN old[r[1]] ELSE IF o = n[2] THEN old[r[2]]
                      ELSE IF o = n[3] THEN old[r[3]] ELSE IF o = n[4] THEN old[r[4]]
                      ELSE << >>]

\* the tracked tokens of the chat as stored ({} when the key is absent)
Tracked(st, hp, p) == IF st[p].tracked_tokens = 0 THEN << >> ELSE hp[st[p].tracked_tokens]

\* what PicklePersistence loads for the chat: nothing on the first start,
\* else what an earlier run of the process has left, the clock being 0 at
\* the start of this run
PersistedTokens ==
  {None, << >>,
   <<[addr |-> "A", symbol |-> "SYM", last_status |-> "processing",
     last_change |-> 0 - IDLE_TIMEOUT \div 2]>>}

Started ==
  /\ chat_id \in ChatIds
  /\ \E loaded \in PersistedTokens :
       /\ storage = [p \in Partitions |->
                       [tracked_tokens |-> IF p = get_storage(chat_id) /\ loaded # None
                                             THEN 1 ELSE 0,
                        pending_token |-> None]]
       /\ heap = [o \in ObjIds |-> IF o = 1 /\ loaded # None THEN loaded ELSE << >>]
       /\ startup = [done |-> FALSE,
                     persisted |-> IF loaded # None THEN {get_storage(chat_id)} ELSE {}]
  /\ job_queue = << >>
  /\ handler = NoHandler
  /\ tick = NoTick
  /\ sent = << >>
  /\ now = 0

\* no call is followed on its own
NoCall == [fn |-> None]

Init == Started /\ overlap = MaxOverlap /\ call = NoCall

\* the same start, one more command being admitted during a run of
\* check_for_updates
InitMore == Started /\ overlap = MaxOverlap + 1 /\ call = NoCall

(***************************************************************************)
(* StatusProvider                                                          *)
(***************************************************************************)
\* what fetch_token_info returns: (None, None, None) or (status, _, symbol)
FetchResults(token_address) ==
  {[status |-> None, symbol |-> None]}
    \cup {[status |-> s, symbol |-> PairSymbol(token_address)] :
            s \in Statuses(token_address)}

\* what fetch_token_header returns: a header URL or None
HeaderResults == {"header", None}

\* status in ['approved', 'updated'], without lower() (sensitivity variant)
IsTerminalExact(status) == status \in {"approved", "updated"}

\* status.lower() in ['approved'] (sensitivity variant)
IsTerminalApproved(status) == Lower(status) \in {"approved"}

\* status.lower() in ['approved', 'updated']
IsTerminal(status) == Lower(status) \in {"approved", "updated"}

\* symbol or 'Unknown'
SymbolOr(symbol) == IF Falsy(symbol) THEN "Unknown" ELSE symbol

(***************************************************************************)
(* Job queue: a job is [is_group, running], running while its callback     *)
(* check_for_updates is being executed                                     *)
(***************************************************************************)
\* context.job_queue.get_jobs_by_name(job_name)
get_jobs_by_name(q) == q

\* run_repeating without the look-up of the name (sensitivity variant)
ScheduleAlways(q, is_group) == Append(q, [is_group |-> is_group, running |-> FALSE])

\* if not jobs: job_queue.run_repeating(check_for_updates, ...)
ScheduleIfNone(q, is_group) ==
  IF get_jobs_by_name(q) = << >>
    THEN Append(q, [is_group |-> is_group, running |-> FALSE])
    ELSE q

\* job.schedule_removal() in the job's own callback
schedule_removal(q) == SelectSeq(q, LAMBDA j : ~j.running)

\* the callback of the running job has returned
Returned(q) == [i \in 1..Len(q) |-> [q[i] EXCEPT !.running = FALSE]]

(***************************************************************************)
(* Command dispatch                                                        *)
(***************************************************************************)
\* the application takes the next update when the handler of the previous
\* one has returned
Dispatch == handler.pc = "idle" /\ (tick.pc # "idle" => tick.arrived < overlap)

Arrived(t) == IF t.pc # "idle" THEN [t EXCEPT !.arrived = @ + 1] ELSE t

\* the handler awaits its last reply, with nothing left to do after it
Reply(outcome) == [NoHandler EXCEPT !.pc = "reply", !.outcome = outcome]

HandlerReturn ==
  /\ handler.pc = "reply"
  /\ handler' = NoHandler
  /\ UNCHANGED <<call, chat_id, overlap, storage, heap, job_queue, startup, tick, sent, now>>

(***************************************************************************)
(* track_command                                                           *)
(***************************************************************************)
\* len(tracked_tokens) > MAX_TRACKING_SLOTS (sensitivity variant)
SlotsOver(d) == Len(d) > MAX_TRACKING_SLOTS

\* len(tracked_tokens) >= MAX_TRACKING_SLOTS
SlotsFull(d) == Len(d) >= MAX_TRACKING_SLOTS

\* the inline keyboard: one button (slot number, symbol) per existing item
Keyboard(d) ==
  LET shown == Prefix(d, MAX_TRACKING_SLOTS)
  IN [i \in 1..Len(shown) |-> [slot |-> i, symbol |-> shown[i].symbol]]

\* /track with the arguments args: lines 103-116, up to the await of
\* fetch_token_info
TrackCommand(args) ==
  /\ Dispatch
  /\ LET token_address == args[1]
         t1 == Arrived(tick)
     IN IF args = << >>
          THEN Commit(storage, heap, Reply("NoArgs"), t1)
        ELSE IF ~MatchesAddressPattern(token_address)
          THEN Commit(storage, heap, Reply("InvalidAddress"), t1)
        ELSE Commit(storage, heap,
                    [NoHandler EXCEPT !.pc = "track_fetch",
                                      !.pending_token = token_address], t1)
  /\ UNCHANGED <<call, chat_id, overlap, job_queue, startup, sent, now>>

\* fetch_token_info has returned res: lines 117-165, up to the await of the
\* header and of the reply
TrackFetched(res) ==
  /\ handler.pc = "track_fetch"
  /\ LET p == get_storage(chat_id)
         token_address == handler.pending_token
         status == res.status
         symbol == SymbolOr(res.symbol)
         \* storage.setdefault('tracked_tokens', {})
         obj == IF storage[p].tracked_tokens = 0
                  THEN NewObj(storage, handler, tick)
                  ELSE storage[p].tracked_tokens
         st1 == [storage EXCEPT ![p].tracked_tokens = obj]
         tracked_tokens == heap[obj]
     IN IF Falsy(status)
          THEN Commit(storage, heap, Reply("TrackFetchFailed"), tick)
        ELSE IF IsTerminal(status)
          THEN Commit(storage, heap, Reply("ImmediateTerminal"), tick)
        ELSE IF Has(tracked_tokens, token_address)
          THEN Commit(st1, heap, Reply("AlreadyTracked"), tick)
        ELSE IF SlotsFull(tracked_tokens)
          THEN Commit([st1 EXCEPT ![p].pending_token = token_address], heap,
                      [Reply("SlotsFull") EXCEPT !.keyboard = Keyboard(tracked_tokens)],
                      tick)
        ELSE Commit(st1,
                    [heap EXCEPT ![obj] =
                       DictSet(tracked_tokens, token_address,
                               [symbol |-> symbol, last_status |-> status,
                                last_change |-> now])],
                    [NoHandler EXCEPT !.pc = "track_notify", !.outcome = "Tracked"],
                    tick)
  /\ UNCHANGED <<call, chat_id, overlap, job_queue, startup, sent, now>>

\* the "Now tracking" message is out: lines 178-190
TrackNotified ==
  /\ handler.pc = "track_notify"
  /\ job_queue' = ScheduleIfNone(job_queue, chat_id < 0)
  /\ handler' = NoHandler
  /\ UNCHANGED <<call, chat_id, overlap, storage, heap, startup, tick, sent, now>>

(***************************************************************************)
(* handle_replace_callback                                                 *)
(***************************************************************************)
\* lines 205-210: the address at the selected slot, None for
\* IndexError / ValueError
SelectedAddress(tracked_tokens, text) ==
  IF ~IsIntLiteral(text)
    THEN None
    ELSE ListIndex(Keys(tracked_tokens), ParseInt(text) - 1)

\* a replace_<slot> button is pressed: line 195, the await of query.answer()
ReplacePressed ==
  /\ Dispatch
  /\ Commit(storage, heap, [NoHandler EXCEPT !.pc = "replace_answer"], Arrived(tick))
  /\ UNCHANGED <<call, chat_id, overlap, job_queue, startup, sent, now>>

\* the query is answered, its data being replace_<text>: lines 196-213, up
\* to the await of fetch_token_info
ReplaceCallback(text) ==
  /\ handler.pc = "replace_answer"
  /\ LET p == get_storage(chat_id)
         obj == storage[p].tracked_tokens
         tracked_tokens == Tracked(storage, heap, p)
         pending_token == storage[p].pending_token
         old_address == SelectedAddress(tracked_tokens, text)
     IN IF Falsy(pending_token)
          THEN Commit(storage, heap, Reply("NoPending"), tick)
        ELSE IF old_address = None
          THEN Commit(storage, heap, Reply("InvalidSlot"), tick)
        ELSE Commit(storage,
                    [heap EXCEPT ![obj] = DictDel(tracked_tokens, old_address)],
                    [NoHandler EXCEPT !.pc = "replace_fetch", !.tracked_tokens = obj,
                                      !.pending_token = pending_token],
                    tick)
  /\ UNCHANGED <<call, chat_id, overlap, job_queue, startup, sent, now>>

\* fetch_token_info has returned: lines 214-229, up to the awaits of the
\* header and of the messages
ReplaceFetched(res) ==
  /\ handler.pc = "replace_fetch"
  /\ LET status == res.status
         symbol == SymbolOr(res.symbol)
         obj == handler.tracked_tokens
     IN IF Falsy(status)
          THEN Commit(storage, heap, Reply("FetchFailed"), tick)
        ELSE IF ~IsTerminal(status)
          THEN Commit(storage,
                      [heap EXCEPT ![obj] =
                         DictSet(heap[obj], handler.pending_token,
                                 [symbol |-> symbol, last_status |-> status,
                                  last_change |-> now])],
                      [NoHandler EXCEPT !.pc = "replace_edit", !.status = status,
                                        !.outcome = "Replaced"],
                      tick)
        ELSE Commit(storage, heap,
                    [NoHandler EXCEPT !.pc = "replace_edit", !.status = status,
                                      !.outcome = "ReplacedButTerminal"],
                    tick)
  /\ UNCHANGED <<call, chat_id, overlap, job_queue, startup, sent, now>>

\* lines 230-239: the handler returns before line 242
ReturnsEarly(status, header) ==
  ~IsTerminal(status) /\ Lower(status) = "processing" /\ ~Falsy(header)

\* the messages are out, fetch_token_header having returned header:
\* lines 230-242
ReplaceEdited(header) ==
  /\ handler.pc = "replace_edit"
  /\ storage' = IF ReturnsEarly(handler.status, header)
                  THEN storage
                  ELSE [storage EXCEPT ![get_storage(chat_id)].pending_token = None]
  /\ handler' = NoHandler
  /\ UNCHANGED <<call, chat_id, overlap, heap, job_queue, startup, tick, sent, now>>

(***************************************************************************)
(* stop_tracking                                                           *)
(***************************************************************************)
\* /stop arrives: lines 328-334, up to the await of the reply
StopCommand ==
  /\ Dispatch
  /\ LET p == get_storage(chat_id)
     IN IF storage[p].tracked_tokens # 0
          THEN Commit([storage EXCEPT ![p].tracked_tokens = 0], heap,
                      [NoHandler EXCEPT !.pc = "stop_reply", !.outcome = "Stopped"],
                      Arrived(tick))
          ELSE Commit(storage, heap,
                      [NoHandler EXCEPT !.pc = "stop_reply", !.outcome = "NoActive"],
                      Arrived(tick))
  /\ UNCHANGED <<call, chat_id, overlap, job_queue, startup, sent, now>>

\* lines 337-338: every job of that name is removed
RemoveJobs(q) == << >>

\* the reply is out: lines 336-338
StopReplied ==
  /\ handler.pc = "stop_reply"
  /\ job_queue' = RemoveJobs(get_jobs_by_name(job_queue))
  /\ handler' = NoHandler
  /\ UNCHANGED <<call, chat_id, overlap, storage, heap, startup, tick, sent, now>>

(***************************************************************************)
(* check_for_updates                                                       *)
(***************************************************************************)
\* a message of check_for_updates; with or without the header image, a
\* failed send_photo being followed by send_message with the same text
Note(addr, kind) == [addr |-> addr, kind |-> kind]

\* line 308: dict(list(tracked_tokens.items())[:MAX_TRACKING_SLOTS])
Truncated(tracked_tokens) == Prefix(tracked_tokens, MAX_TRACKING_SLOTS)

\* line 265: stored_symbol if stored_symbol else symbol or 'Unknown'
TickSymbol(stored_symbol, symbol) ==
  IF ~Falsy(stored_symbol) THEN stored_symbol ELSE SymbolOr(symbol)

\* line 303: time.time() - last_change > 1800
IdleTooLong(t, last_change) == t - last_change > IDLE_TIMEOUT

\* line 271: current_status != last_status
Changed(current_status, last_status) == current_status # last_status

\* the partition a job reads: line 248
JobStorage(is_group) == IF is_group THEN "chat_data" ELSE "user_data"

\* The loop goes on with the items `rest` of the snapshot, the dict objects
\* being `hp`: the next item's fetch is awaited, or, after the last item,
\* lines 308-310 run and the callback returns.
TickContinue(hp, rest) ==
  IF rest # << >>
    THEN /\ Commit(storage, hp, handler, [tick EXCEPT !.pc = "fetch", !.items = rest])
         /\ UNCHANGED job_queue
    ELSE LET p == JobStorage(tick.is_group)
             obj == NewObj(storage, handler, tick)
             kept == Truncated(hp[tick.tracked_tokens])
         IN /\ Commit([storage EXCEPT ![p].tracked_tokens = obj],
                      [hp EXCEPT ![obj] = kept], handler, NoTick)
            /\ job_queue' = Returned(IF kept = << >> THEN schedule_removal(job_queue)
                                                     ELSE job_queue)

\* the scheduler runs job j: lines 246-256, up to the first fetch.  A job
\* first runs 10 s after its creation, on_startup 1 s after the start, and
\* one job has one running instance at a time.
TickStart(j) ==
  /\ tick.pc = "idle"
  /\ startup.done
  /\ j \in 1..Len(job_queue)
  /\ LET job == job_queue[j]
         p == JobStorage(job.is_group)
         tracked_tokens == Tracked(storage, heap, p)
         running == [job_queue EXCEPT ![j].running = TRUE]
     IN IF tracked_tokens = << >>
          THEN /\ job_queue' = Returned(schedule_removal(running))
               /\ UNCHANGED <<storage, heap, handler, tick>>
          ELSE /\ job_queue' = running
               /\ Commit(storage, heap, handler,
                         [NoTick EXCEPT !.pc = "fetch", !.is_group = job.is_group,
                                        !.tracked_tokens = storage[p].tracked_tokens,
                                        !.items = tracked_tokens])
  /\ UNCHANGED <<call, chat_id, overlap, startup, sent, now>>

\* the status message without the "Stopped tracking" message
\* (sensitivity variant)
TickMessagesOnce(token_info, current_status, t) ==
  IF current_status # token_info.last_status
    THEN <<[addr |-> token_info.addr, kind |-> "status_change"]>>
  ELSE IF t - token_info.last_change > IDLE_TIMEOUT
    THEN <<[addr |-> token_info.addr, kind |-> "idle_timeout"]>>
  ELSE << >>

\* the messages lines 271-306 send for an item of the snapshot
TickMessages(token_info, current_status, t) ==
  IF Changed(current_status, token_info.last_status)
    THEN <<Note(token_info.addr, "status_change")>>
           \o (IF IsTerminal(current_status)
                 THEN <<Note(token_info.addr, "stopped")>> ELSE << >>)
  ELSE IF IdleTooLong(t, token_info.last_change)
    THEN <<Note(token_info.addr, "idle_timeout")>>
  ELSE << >>

\* the address check_for_updates is fetching
HeadAddr == IF tick.items = << >> THEN None ELSE Head(tick.items).addr

\* fetch_token_info has returned res for the first item left of the
\* snapshot: lines 258-306
TickItem(res) ==
  /\ tick.pc = "fetch"
  /\ LET token_info == Head(tick.items)
         token_address == token_info.addr
         current_status == res.status
         symbol == TickSymbol(token_info.symbol, res.symbol)
         obj == tick.tracked_tokens
         stored == DictSet(heap[obj], token_address,
                           [symbol |-> symbol, last_status |-> current_status,
                            last_change |-> now])
     IN IF Falsy(current_status)
          THEN /\ TickContinue(heap, Tail(tick.items))
               /\ sent' = << >>
        ELSE IF Changed(current_status, token_info.last_status)
          THEN IF IsTerminal(current_status)
                 THEN /\ Commit(storage, [heap EXCEPT ![obj] = DictDel(stored, token_address)],
                                handler, [tick EXCEPT !.pc = "send"])
                      /\ sent' = TickMessages(token_info, current_status, now)
                      /\ UNCHANGED job_queue
                 ELSE /\ TickContinue([heap EXCEPT ![obj] = stored], Tail(tick.items))
                      /\ sent' = TickMessages(token_info, current_status, now)
        ELSE IF IdleTooLong(now, token_info.last_change)
          THEN IF Has(heap[obj], token_address)
                 THEN /\ Commit(storage,
                                [heap EXCEPT ![obj] = DictDel(heap[obj], token_address)],
                                handler, [tick EXCEPT !.pc = "send"])
                      /\ sent' = TickMessages(token_info, current_status, now)
                      /\ UNCHANGED job_queue
                 ELSE \* KeyError
                      /\ Commit(storage, heap, handler, [tick EXCEPT !.pc = "raised"])
                      /\ sent' = << >>
                      /\ UNCHANGED job_queue
        ELSE /\ TickContinue(heap, Tail(tick.items))
             /\ sent' = << >>
  /\ UNCHANGED <<call, chat_id, overlap, startup, now>>

\* the "Stopped tracking" message is out: the loop goes on
TickSent ==
  /\ tick.pc = "send"
  /\ TickContinue(heap, Tail(tick.items))
  /\ sent' = << >>
  /\ UNCHANGED <<call, chat_id, overlap, startup, now>>

\* the exception leaves the callback: the job queue logs it, lines 308-310
\* have not run, the job stays scheduled
TickRaised ==
  /\ tick.pc = "raised"
  /\ Commit(storage, heap, handler, NoTick)
  /\ job_queue' = Returned(job_queue)
  /\ UNCHANGED <<call, chat_id, overlap, startup, sent, now>>

(***************************************************************************)
(* main / on_startup                                                       *)
(***************************************************************************)
\* lines 375-408: a job for every record of the persisted chat_data, then
\* of the persisted user_data, that has a tracked_tokens key
OnStartup ==
  /\ ~startup.done
  /\ LET q1 == IF "chat_data" \in startup.persisted
                 THEN ScheduleIfNone(job_queue, TRUE) ELSE job_queue
         q2 == IF "user_data" \in startup.persisted
                 THEN ScheduleIfNone(q1, FALSE) ELSE q1
     IN job_queue' = q2
  /\ startup' = [done |-> TRUE, persisted |-> {}]
  /\ UNCHANGED <<call, chat_id, overlap, storage, heap, handler, tick, sent, now>>

\* time passes: a clock step is long compared with the run of a handler or
\* of check_for_updates, which read the same time throughout
Advance ==
  /\ now + TimeStep <= MaxNow
  /\ startup.done /\ handler.pc = "idle" /\ tick.pc = "idle"
  /\ now' = now + TimeStep
  /\ UNCHANGED <<call, chat_id, overlap, storage, heap, job_queue, startup, handler, tick, sent>>

Next ==
  \/ \E args \in TrackArgs : TrackCommand(args)
  \/ \E res \in FetchResults(handler.pending_token) : TrackFetched(res)
  \/ TrackNotified
  \/ HandlerReturn
  \/ ReplacePressed
  \/ \E text \in SlotTexts : ReplaceCallback(text)
  \/ \E res \in FetchResults(handler.pending_token) : ReplaceFetched(res)
  \/ \E header \in HeaderResults : ReplaceEdited(header)
  \/ StopCommand
  \/ StopReplied
  \/ \E j \in 1..Len(job_queue) : TickStart(j)
  \/ \E res \in FetchResults(HeadAddr) : TickItem(res)
  \/ TickSent
  \/ TickRaised
  \/ OnStartup
  \/ Advance

Spec == Init /\ [][Next]_vars

SpecMore == InitMore /\ [][Next]_vars

(***************************************************************************)
(* Fair scheduling.  The job queue runs a scheduled job every 10 s and an  *)
(* awaited fetch or send returns, so a step of check_for_updates that can  *)
(* be taken is taken.  Once the clock is at its last instant the chat is   *)
(* left alone: no command arrives, every fetch succeeds and returns the    *)
(* status the snapshot holds.                                              *)
(***************************************************************************)
\* the clock is at its last instant
Settled == now + TimeStep > MaxNow

\* a step of check_for_updates, the fetch having succeeded with the status
\* unchanged
SettledTick ==
  \/ \E j \in 1..Len(job_queue) : TickStart(j)
  \/ \E res \in FetchResults(HeadAddr) :
       /\ tick.pc = "fetch"
       /\ res.status = Head(tick.items).last_status
       /\ TickItem(res)
  \/ TickSent
  \/ TickRaised

NextLive ==
  \/ ~Settled /\ Next
  \/ Settled /\ SettledTick

SpecLive == Init /\ [][NextLive]_vars /\ WF_vars(Settled /\ SettledTick)

(***************************************************************************)
(* fetch_token_info under @retry(stop_after_attempt(3), wait_fixed(2)),    *)
(* followed on its own: a call is [fn, token_address, pc, attempt_number,  *)
(* status, result].  tenacity calls the function again when it raises, and *)
(* raises RetryError when the last attempt has raised; a value the         *)
(* function returns, (None, None, None) included, is the value of the call.*)
(***************************************************************************)
\* stop_after_attempt(3)
MAX_ATTEMPTS == 3

\* what a GET of the orders endpoint does: aiohttp.ClientError, a status
\* other than 200, an exception that is no ClientError (asyncio.TimeoutError),
\* 200 with an empty list, 200 with a record of the token
OrdersResponses(token_address) ==
  {"ClientError", "non-200", "TimeoutError", "[]"} \cup Statuses(token_address)

\* what a GET of the token-pairs endpoint does: the same failures, or 200
\* with a list of pairs
PairsResponses == {"ClientError", "non-200", "TimeoutError", "pairs"}

\* the state of the program around the call: nothing tracked, nothing running
Quiet ==
  /\ chat_id \in ChatIds
  /\ overlap = MaxOverlap
  /\ storage = [p \in Partitions |-> [tracked_tokens |-> 0, pending_token |-> None]]
  /\ heap = [o \in ObjIds |-> << >>]
  /\ startup = [done |-> FALSE, persisted |-> {}]
  /\ job_queue = << >>
  /\ handler = NoHandler
  /\ tick = NoTick
  /\ sent = << >>
  /\ now = 0

Around == <<chat_id, overlap, storage, heap, job_queue, startup, handler, tick, sent, now>>

FetchCall(token_address) ==
  [fn |-> "fetch_token_info", token_address |-> token_address, pc |-> "orders",
   attempt_number |-> 1, status |-> None, result |-> None]

\* return status, payment_ts, symbol
FetchReturn(c, status, symbol) ==
  [c EXCEPT !.pc = "returned", !.result = [status |-> status, symbol |-> symbol]]

\* the attempt has raised: tenacity waits and calls again, or gives up
FetchRaise(c) ==
  IF c.attempt_number >= MAX_ATTEMPTS
    THEN [c EXCEPT !.pc = "raised", !.result = "RetryError"]
    ELSE [c EXCEPT !.pc = "wait"]

\* lines 46-56: the GET of status_url
FetchOrders(r) ==
  /\ call.fn = "fetch_token_info" /\ call.pc = "orders"
  /\ call' = CASE r = "ClientError" -> FetchReturn(call, None, None)
               [] r = "non-200" -> FetchReturn(call, None, None)
               [] r = "TimeoutError" -> FetchRaise(call)
               [] r = "[]" -> [call EXCEPT !.pc = "pairs", !.status = "not paid"]
               [] OTHER -> [call EXCEPT !.pc = "pairs", !.status = r]
  /\ UNCHANGED Around

\* lines 58-67: the GET of pairs_url
FetchPairs(r) ==
  /\ call.fn = "fetch_token_info" /\ call.pc = "pairs"
  /\ call' = CASE r = "ClientError" -> FetchReturn(call, None, None)
               [] r = "non-200" -> FetchReturn(call, call.status, "Unknown")
               [] r = "TimeoutError" -> FetchRaise(call)
               [] OTHER -> FetchReturn(call, call.status, PairSymbol(call.token_address))
  /\ UNCHANGED Around

\* wait_fixed(2) is over: the next attempt
FetchAgain ==
  /\ call.fn = "fetch_token_info" /\ call.pc = "wait"
  /\ call' = [call EXCEPT !.pc = "orders", !.attempt_number = @ + 1, !.status = None]
  /\ UNCHANGED Around

InitFetch == Quiet /\ \E token_address \in Addresses : call = FetchCall(token_address)

NextFetch ==
  \/ \E r \in OrdersResponses(call.token_address) : FetchOrders(r)
  \/ \E r \in PairsResponses : FetchPairs(r)
  \/ FetchAgain

SpecFetch == InitFetch /\ [][NextFetch]_vars

(***************************************************************************)
(* time_since, followed on its own: a call is [fn, pc, timestamp, time,    *)
(* result], timestamp the paymentTimestamp in milliseconds and time the    *)
(* value of time.time() at the call, in milliseconds                       *)
(***************************************************************************)
\* the payment is at most MaxDays days old
MaxDays == 2

MsPerSecond == 1000

SecondsPerDay == 86400

\* time.time() at the earliest call
Epoch == (MaxDays + 1) * SecondsPerDay * MsPerSecond

\* the time.time() values of the calls
Times == {Epoch, Epoch + 1, Epoch + 999, Epoch + 1000}

\* the elapsed milliseconds at Epoch, on both sides of every threshold
ElapsedMs ==
  {0, 999, 1000, 59999, 60000, 90000, 3599999, 3600000, 7199999,
   SecondsPerDay * MsPerSecond - 1, SecondsPerDay * MsPerSecond,
   MaxDays * SecondsPerDay * MsPerSecond - 1, MaxDays * SecondsPerDay * MsPerSecond}

\* the timestamps: none, negative, in the past, in the future
Timestamps == {0 - 1, 0, 1, Epoch + 1001} \cup {Epoch - d : d \in ElapsedMs}

\* isinstance(timestamp, (int, float))
IsNumber(timestamp) == timestamp \in Int

\* f"{int(count)} {unit}"
Format(count, unit) == ToString(count) \o " " \o unit

\* the first interval with count > 1 (sensitivity variant)
time_since_above(timestamp, t) ==
  IF ~IsNumber(timestamp) \/ timestamp <= 0 THEN "Unknown"
  ELSE IF t - timestamp < 0 THEN "Not yet paid"
  ELSE LET days == (t - timestamp) \div (SecondsPerDay * MsPerSecond)
           hours == ((t - timestamp) \div (3600 * MsPerSecond)) % 24
           minutes == ((t - timestamp) \div (60 * MsPerSecond)) % 60
       IN IF days > 1 THEN Format(days, "days")
          ELSE IF hours > 1 THEN Format(hours, "hours")
          ELSE IF minutes > 1 THEN Format(minutes, "minutes")
          ELSE Format((t - timestamp) \div MsPerSecond, "seconds")

\* time_since(timestamp) at time.time() = t / 1000: diff is
\* (t - timestamp) / 1000 seconds, diff // n its floor division
time_since(timestamp, t) ==
  IF ~IsNumber(timestamp) \/ timestamp <= 0 THEN "Unknown"
  ELSE IF t - timestamp < 0 THEN "Not yet paid"
  ELSE LET days == (t - timestamp) \div (SecondsPerDay * MsPerSecond)
           hours == ((t - timestamp) \div (3600 * MsPerSecond)) % 24
           minutes == ((t - timestamp) \div (60 * MsPerSecond)) % 60
       IN IF days >= 1 THEN Format(days, "days")
          ELSE IF hours >= 1 THEN Format(hours, "hours")
          ELSE IF minutes >= 1 THEN Format(minutes, "minutes")
          ELSE Format((t - timestamp) \div MsPerSecond, "seconds")

TimeSinceCall(timestamp, t) ==
  [fn |-> "time_since", pc |-> "called", timestamp |-> timestamp, time |-> t,
   result |-> None]

\* the call returns
TimeSinceReturns ==
  /\ call.fn = "time_since" /\ call.pc = "called"
  /\ call' = [call EXCEPT !.pc = "returned",
                          !.result = time_since(call.timestamp, call.time)]
  /\ UNCHANGED Around

InitTime ==
  Quiet /\ \E timestamp \in Timestamps, t \in Times : call = TimeSinceCall(timestamp, t)

NextTime == TimeSinceReturns

SpecTime == InitTime /\ [][NextTime]_vars

(***************************************************************************)
(* Properties                                                              *)
(***************************************************************************)
\* the chat's partition, its tracked set and its pending replacement
Chat == get_storage(chat_id)

trackedSet == Tracked(storage, heap, Chat)

pendingReplacement == storage[Chat].pending_token

InSet(d, a) == \E i \in 1..Len(d) : d[i].addr = a

\* the step is one of the handler, of check_for_updates after a fetch
HandlerMoves == handler'.pc # handler.pc

TickMoves == tick.pc = "fetch" /\ (tick'.pc # tick.pc \/ tick'.items # tick.items)

\* a /track handler that has stored its address returns
RegisterCompletes == handler.pc = "track_notify" /\ TrackNotified

\* a run of check_for_updates returns after lines 308-310
TickCompletes == tick.pc \in {"fetch", "send"} /\ tick'.pc = "idle"

\* C1: the chat's tracked set holds at most MAX_TRACKING_SLOTS items when a
\* registration has completed and when a refresh tick has completed, whatever
\* the interleaving of registrations, replacements, stops and ticks.
C1_SizeBounded ==
  [][(RegisterCompletes \/ TickCompletes)
       => Len(trackedSet') <= MAX_TRACKING_SLOTS]_vars

\* C10: in every reachable state at most one job is scheduled for the chat.
C10_OneJob == Len(get_jobs_by_name(job_queue)) <= 1

\* a job is scheduled and the chat's set is full: the second registration
\* and on_startup have found the job of the first
C10_Witness ==
  /\ Len(job_queue) = 1
  /\ startup.done
  /\ Len(trackedSet) = MAX_TRACKING_SLOTS
  /\ handler.pc = "idle"

\* the slot selector is an integer in 1..n
ValidSlot(text, n) == IsIntLiteral(text) /\ ParseInt(text) \in 1..n

\* the statuses that are approved or updated, whatever the case
TerminalStatus(status) == status \in {"approved", "updated", "APPROVED"}

\* C2: with a pending address set, a slot selector that is not an integer
\* in 1..n (0, a negative number, a number above n, non-numeric text) gets
\* InvalidSlot, no item is removed and pendingReplacement stays set.
C2_InvalidSlotChangesNothing ==
  [][HandlerMoves =>
     \A text \in SlotTexts :
       (/\ ReplaceCallback(text)
        /\ ~Falsy(pendingReplacement)
        /\ ~ValidSlot(text, Len(trackedSet)))
         => (/\ handler'.outcome = "InvalidSlot"
             /\ trackedSet' = trackedSet
             /\ pendingReplacement' = pendingReplacement)]_vars

\* C3: with a valid slot and a non-terminal status fetched for the pending
\* address ("processing" with an image included), the item at the slot is
\* removed, the pending address becomes the last item, the other items keep
\* their order, and pendingReplacement is cleared when the handler returns.
C3_ReplacedClearsPending ==
  [][HandlerMoves =>
     /\ \A text \in SlotTexts :
          (/\ ReplaceCallback(text)
           /\ ~Falsy(pendingReplacement)
           /\ ValidSlot(text, Len(trackedSet)))
            => trackedSet' = DictDel(trackedSet, trackedSet[ParseInt(text)].addr)
     /\ \A res \in FetchResults(handler.pending_token) :
          (/\ ReplaceFetched(res)
           /\ ~Falsy(res.status)
           /\ ~TerminalStatus(res.status))
            => LET others == DictDel(trackedSet, handler.pending_token)
               IN /\ Len(trackedSet') = Len(others) + 1
                  /\ SubSeq(trackedSet', 1, Len(others)) = others
                  /\ trackedSet'[Len(trackedSet')].addr = handler.pending_token
     /\ \A header \in HeaderResults :
          (/\ ReplaceEdited(header)
           /\ ~TerminalStatus(handler.status))
            => pendingReplacement' = None]_vars

\* C9: when /stop has completed, the chat has no tracked item, no
\* pendingReplacement and no job.
C9_StopClearsAll ==
  [][StopReplied
       => (/\ trackedSet' = << >>
           /\ pendingReplacement' = None
           /\ job_queue' = << >>)]_vars

\* C4: with a valid slot the selected item is removed; when the status
\* fetched for the pending address is terminal (approved or updated,
\* whatever the case) the pending address is not stored, the outcome is
\* ReplacedButTerminal and pendingReplacement is cleared when the handler
\* returns.
C4_ReplacedButTerminal ==
  [][HandlerMoves =>
     /\ \A text \in SlotTexts :
          (/\ ReplaceCallback(text)
           /\ ~Falsy(pendingReplacement)
           /\ ValidSlot(text, Len(trackedSet)))
            => (/\ trackedSet' = DictDel(trackedSet, trackedSet[ParseInt(text)].addr)
                /\ Len(trackedSet') = Len(trackedSet) - 1
                /\ handler'.pc = "replace_fetch")
     /\ \A res \in FetchResults(handler.pending_token) :
          (/\ ReplaceFetched(res)
           /\ TerminalStatus(res.status))
            => (/\ trackedSet' = trackedSet
                /\ handler'.outcome = "ReplacedButTerminal"
                /\ handler'.status = res.status)
     /\ \A header \in HeaderResults :
          (/\ ReplaceEdited(header)
           /\ TerminalStatus(handler.status))
            => (/\ handler.outcome = "ReplacedButTerminal"
                /\ pendingReplacement' = None
                /\ trackedSet' = trackedSet)]_vars

\* register A (processing), register B (pending), register C while full,
\* slot 1 resolved with C approved: the set is {B} when the handler is
\* about to return
C4_Witness ==
  /\ handler.pc = "replace_edit"
  /\ handler.outcome = "ReplacedButTerminal"
  /\ handler.status = "approved"
  /\ pendingReplacement = "C"
  /\ Len(trackedSet) = 1
  /\ trackedSet[1].addr = "B"
  /\ trackedSet[1].last_status = "pending"

\* C5: in a tick, an item whose stored status is "processing" and whose
\* fetched status is "approved" gets exactly two messages, the status
\* change and then the end of the tracking, and is removed from the dict
\* the tick stores as the chat's set when it ends.
C5_ProcessingToApproved ==
  [][TickMoves =>
     \A res \in FetchResults(HeadAddr) :
       (/\ Head(tick.items).last_status = "processing"
        /\ res.status = "approved"
        /\ TickItem(res))
         => (/\ sent' = <<[addr |-> HeadAddr, kind |-> "status_change"],
                          [addr |-> HeadAddr, kind |-> "stopped"]>>
             /\ tick'.pc = "send"
             /\ ~InSet(heap'[tick'.tracked_tokens], HeadAddr)
             /\ (storage[Chat].tracked_tokens = tick.tracked_tokens
                  => ~InSet(trackedSet', HeadAddr)))]_vars

\* the two messages for A are out, A having been stored as "processing"
C5_Witness ==
  /\ tick.pc = "send"
  /\ Head(tick.items).addr = "A"
  /\ Head(tick.items).last_status = "processing"
  /\ sent = <<[addr |-> "A", kind |-> "status_change"],
              [addr |-> "A", kind |-> "stopped"]>>
  /\ ~InSet(trackedSet, "A")

\* the chat's set holds the item the tick is at as the tick's snapshot has
\* read it
StoredAsRead ==
  /\ tick.items # << >>
  /\ storage[Chat].tracked_tokens = tick.tracked_tokens
  /\ \E i \in 1..Len(trackedSet) : trackedSet[i] = Head(tick.items)

\* C6: in a tick, an item whose fetched status equals its stored status is
\* removed with exactly one "no changes" message if more than 1800 s have
\* passed since its last change, and stays in the set as it is, with no
\* message, if less than 1800 s have passed.
C6_IdleTimeout ==
  [][TickMoves =>
     \A res \in FetchResults(HeadAddr) :
       (/\ res.status = Head(tick.items).last_status
        /\ StoredAsRead
        /\ TickItem(res))
         => LET elapsed == now - Head(tick.items).last_change
            IN /\ elapsed > IDLE_TIMEOUT
                    => (/\ sent' = <<[addr |-> HeadAddr, kind |-> "idle_timeout"]>>
                        /\ ~InSet(trackedSet', HeadAddr))
               /\ elapsed < IDLE_TIMEOUT
                    => (/\ sent' = << >>
                        /\ \E i \in 1..Len(trackedSet') :
                             trackedSet'[i] = Head(tick.items))]_vars

\* C7 as stated: registering an address that is a key of the chat's set
\* returns AlreadyTracked for every status the fetch returns, the set and
\* pendingReplacement staying as they are.
C7_AlreadyTrackedEveryStatus ==
  [][HandlerMoves =>
     \A res \in FetchResults(handler.pending_token) :
       (/\ TrackFetched(res)
        /\ ~Falsy(res.status)
        /\ InSet(trackedSet, handler.pending_token))
         => (/\ handler'.outcome = "AlreadyTracked"
             /\ trackedSet' = trackedSet
             /\ pendingReplacement' = pendingReplacement)]_vars

\* C7 amended: registering an address that is a key of the chat's set
\* returns AlreadyTracked for every non-terminal status the fetch returns
\* and ImmediateTerminal for a terminal one; in both cases the set, every
\* item's status and timestamp, and pendingReplacement stay as they are.
C7_AlreadyTracked ==
  [][HandlerMoves =>
     \A res \in FetchResults(handler.pending_token) :
       (/\ TrackFetched(res)
        /\ ~Falsy(res.status)
        /\ InSet(trackedSet, handler.pending_token))
         => (/\ handler'.outcome = IF TerminalStatus(res.status)
                                     THEN "ImmediateTerminal" ELSE "AlreadyTracked"
             /\ handler'.pc = "reply"
             /\ trackedSet' = trackedSet
             /\ pendingReplacement' = pendingReplacement)]_vars

\* the second item of the set has been registered again
C7_Witness ==
  /\ handler.pc = "reply"
  /\ handler.outcome = "AlreadyTracked"
  /\ Len(trackedSet) = MAX_TRACKING_SLOTS

\* C8: registering a new address with a non-terminal status while the set
\* holds MAX_TRACKING_SLOTS items returns SlotsFull, sets pendingReplacement
\* to the address, offers the slots 1..n, one per item in insertion order,
\* and changes no item.
C8_SlotsFull ==
  [][HandlerMoves =>
     \A res \in FetchResults(handler.pending_token) :
       (/\ TrackFetched(res)
        /\ ~Falsy(res.status)
        /\ ~TerminalStatus(res.status)
        /\ ~InSet(trackedSet, handler.pending_token)
        /\ Len(trackedSet) = MAX_TRACKING_SLOTS)
         => (/\ handler'.outcome = "SlotsFull"
             /\ pendingReplacement' = handler.pending_token
             /\ handler'.keyboard =
                  [i \in 1..Len(trackedSet) |->
                     [slot |-> i, symbol |-> trackedSet[i].symbol]]
             /\ trackedSet' = trackedSet)]_vars

\* C is pending after its registration has found the set full
C8_Witness ==
  /\ handler.pc = "reply"
  /\ handler.outcome = "SlotsFull"
  /\ Len(handler.keyboard) = MAX_TRACKING_SLOTS
  /\ pendingReplacement = "C"
  /\ Len(trackedSet) = MAX_TRACKING_SLOTS

\* C11: whenever no command handler is executing, a chat whose tracked set
\* is non-empty has a polling job, the tracking jobs of the persisted
\* chats having been restored.
C11_JobWhileTracking ==
  (handler.pc = "idle" /\ startup.done /\ trackedSet # << >>)
    => get_jobs_by_name(job_queue) # << >>

\* a GET of the orders endpoint that hit a transport error or a
\* non-success response
OrdersFailed(r) == r \in {"ClientError", "non-200"}

\* C12: when the GET of the orders endpoint hits a transport error or a
\* non-success response, fetch_token_info is attempted again, up to
\* MAX_ATTEMPTS attempts in total, and the call reports failure to its
\* caller after the last failed attempt only.
C12_RetriesBeforeFailure ==
  [][\A r \in OrdersResponses(call.token_address) :
       (OrdersFailed(r) /\ FetchOrders(r))
         => IF call.attempt_number < MAX_ATTEMPTS
              THEN call'.pc = "wait"
              ELSE call'.pc = "returned" /\ Falsy(call'.result.status)]_vars

\* the text the claim gives for e elapsed whole seconds
Bucketed(e) ==
  IF e >= 86400 THEN ToString(e \div 86400) \o " days"
  ELSE IF e >= 3600 THEN ToString(e \div 3600) \o " hours"
  ELSE IF e >= 60 THEN ToString(e \div 60) \o " minutes"
  ELSE ToString(e) \o " seconds"

\* C13: time_since of an integer timestamp is "Unknown" when the timestamp
\* is <= 0, "Not yet paid" when it is later than now, and else, e being the
\* elapsed whole seconds, e div 86400 days if e >= 86400, else e div 3600
\* hours if e >= 3600, else e div 60 minutes if e >= 60, else e seconds.
C13_TimeSince ==
  (call.fn = "time_since" /\ call.pc = "returned")
    => call.result =
         IF call.timestamp <= 0 THEN "Unknown"
         ELSE IF call.timestamp > call.time THEN "Not yet paid"
         ELSE Bucketed((call.time - call.timestamp) \div 1000)

\* 90 seconds ago is "1 minutes"
C13_Witness ==
  /\ call.fn = "time_since" /\ call.pc = "returned"
  /\ call.time - call.timestamp = 90000
  /\ call.result = "1 minutes"

\* C14: a terminal status is never stored: in every state between steps no
\* item of the chat's tracked set, nor of a dict a handler or a run of
\* check_for_updates holds, has a last status equal, case-insensitively, to
\* approved or updated.
C14_NoTerminalStored ==
  \A o \in ObjIds : \A i \in 1..Len(heap[o]) : ~TerminalStatus(heap[o][i].last_status)

\* check_for_updates has read APPROVED for C, tracked as processing, and
\* has removed C before its "Stopped tracking" message
C14_Witness ==
  /\ tick.pc = "send"
  /\ Head(tick.items).addr = "C"
  /\ Len(sent) = 2 /\ sent[2] = [addr |-> "C", kind |-> "stopped"]
  /\ ~InSet(heap[tick.tracked_tokens], "C")
  /\ tick.tracked_tokens = storage[Chat].tracked_tokens

\* C15: in a run of check_for_updates, an item whose fetch fails is skipped:
\* it stays in the set with its stored symbol, status and last-change time,
\* no message is sent for it, the idle timeout is not applied to it, and
\* the loop goes on with the remaining items of the snapshot.
C15_FetchFailureSkips ==
  [][TickMoves =>
     \A res \in FetchResults(HeadAddr) :
       (Falsy(res.status) /\ StoredAsRead /\ TickItem(res))
         => (/\ sent' = << >>
             /\ \E i \in 1..Len(trackedSet') : trackedSet'[i] = Head(tick.items)
             /\ tick'.pc \in {"fetch", "idle"}
             /\ (Tail(tick.items) # << >>
                   => (tick'.pc = "fetch" /\ tick'.items = Tail(tick.items))))]_vars

\* C16: when a replacement is given a valid slot and the fetch of the
\* pending address fails, the item at the selected slot has been removed,
\* the outcome is FetchFailed, and the handler changes the set no further:
\* the removed item is not restored, the pending address is not stored, the
\* remaining items are unchanged.
C16_FetchFailedKeepsRemoval ==
  [][HandlerMoves =>
     /\ \A text \in SlotTexts :
          (/\ ReplaceCallback(text)
           /\ ~Falsy(pendingReplacement)
           /\ ValidSlot(text, Len(trackedSet)))
            => (/\ handler'.pc = "replace_fetch"
                /\ handler'.pending_token = pendingReplacement
                /\ trackedSet' =
                     SelectSeq(trackedSet,
                               LAMBDA e : e.addr # trackedSet[ParseInt(text)].addr))
     /\ \A res \in FetchResults(handler.pending_token) :
          (Falsy(res.status) /\ ReplaceFetched(res))
            => (/\ handler'.pc = "reply"
                /\ handler'.outcome = "FetchFailed"
                /\ trackedSet' = trackedSet)
     /\ (handler.outcome = "FetchFailed" /\ HandlerReturn)
          => trackedSet' = trackedSet]_vars

\* slot 1 of [A, B] has been replaced, the fetch of C has failed: B is left
C16_Witness ==
  /\ handler.pc = "reply"
  /\ handler.outcome = "FetchFailed"
  /\ pendingReplacement = "C"
  /\ Keys(trackedSet) = <<"B">>
  /\ tick.pc = "idle"

\* C17: under fair scheduling of ticks, every fetch succeeding and the
\* fetched statuses having stopped changing at non-terminal values, every
\* tracked item is eventually removed, and once the set is empty the polling
\* job is eventually retired and no further tick runs.
C17_EventuallyRemovedAndRetired ==
  /\ (Settled /\ trackedSet # << >>) ~> (trackedSet = << >>)
  /\ (Settled /\ trackedSet = << >>) ~> [](job_queue = << >> /\ tick.pc = "idle")

\* C18: removal is absorbing for the refresh: when check_for_updates gets
\* the fetch result of an item of its snapshot that has been removed from
\* the chat's set in the meantime, it does not store the item again, does
\* not raise and sends no message for it.
C18_RemovalAbsorbing ==
  [][TickMoves =>
     \A res \in FetchResults(HeadAddr) :
       (~InSet(trackedSet, HeadAddr) /\ TickItem(res))
         => (/\ ~InSet(trackedSet', HeadAddr)
             /\ tick'.pc # "raised"
             /\ sent' = << >>)]_vars

\* a step of the running check_for_updates
TickStep == tick.pc # "idle" /\ (tick'.pc # tick.pc \/ tick'.items # tick.items)

\* /stop has deleted the tracked_tokens key and nothing has set it since
StoppedSince == storage[Chat].tracked_tokens = 0

\* C19: after /stop the chat's stored tracked set is empty and stays empty
\* until the next registration or replacement, also when a run of
\* check_for_updates was suspended on a fetch while /stop ran and finishes
\* afterwards.
C19_StopStaysEmpty ==
  [][(\/ (handler.outcome = "Stopped" /\ StopReplied)
      \/ (StoppedSince /\ handler.pc # "stop_reply" /\ TickStep))
       => trackedSet' = << >>]_vars

\* C20: when a replacement reports Replaced, the pending address is in the
\* chat's stored set once the replacement has written it and the run of
\* check_for_updates that overlapped it has returned: the address is in the
\* set when it is written with no run in progress, and a run that returns
\* afterwards, not having handled that address itself, leaves it there.
C20_ReplacedIsStored ==
  [][/\ HandlerMoves =>
        \A res \in FetchResults(handler.pending_token) :
          (/\ tick.pc = "idle"
           /\ ~Falsy(res.status)
           /\ ~TerminalStatus(res.status)
           /\ ReplaceFetched(res))
            => (/\ handler'.outcome = "Replaced"
                /\ InSet(trackedSet', handler.pending_token))
     /\ (/\ TickCompletes
         /\ handler.pc = "replace_edit"
         /\ handler.outcome = "Replaced"
         /\ InSet(trackedSet, pendingReplacement)
         /\ HeadAddr # pendingReplacement)
          => InSet(trackedSet', pendingReplacement)]_vars
====
